---- MODULE Spec2Model ----
(***************************************************************************)
(* State-machine model of the UltraHDR encoder fuzz driver                 *)
(* libs/ultrahdr/fuzzer/ultrahdr_enc_fuzzer.cpp: JpegHDRFuzzer::process,   *)
(* JpegHDRFuzzer::fillP010Buffer and the descriptors they build and hand   *)
(* to the JPEG-R codec.  The codec entry points (encodeJPEGR, decodeJPEGR) *)
(* and the enum / nits constants of the ultrahdr headers are not part of   *)
(* the source at hand; they are modelled from the design document.         *)
(***************************************************************************)
EXTENDS Integers, FiniteSets, Sequences, TLC

VARIABLES
    pc,          \* position inside process(): loop/params/images/.../done
    remaining,   \* mFdp.remaining_bytes()
    muxSwitch,   \* which encode api to select
    tf,          \* hdr transfer function
    width,       \* image width after rounding down to even
    height,      \* image height after rounding down to even
    p010Img,     \* jpegr_uncompressed_struct p010Img
    yuv420Img,   \* jpegr_uncompressed_struct yuv420Img
    grayImg,     \* jpegr_uncompressed_struct grayImg
    jpegImgR,    \* jpegr_compressed_struct jpegImgR (destination)
    jpegImg,     \* jpegr_compressed_struct jpegImg (compressed primary)
    jpegGainMap, \* jpegr_compressed_struct jpegGainMap
    metadata,    \* ultrahdr_metadata_struct handed to api 4
    status,      \* android::status_t status
    encodeApi,   \* history: encode shape invoked in this iteration, -1 if none
    passed,      \* history: pixel descriptors handed to encode in this iteration
    preLength,   \* history: jpegImgR.length when the encode call was made
    encodeOut,   \* history: destination descriptor as the encode call left it
    decodeIn,    \* history: descriptor decodeJPEGR read in this iteration
    infoIn,      \* history: descriptor getJPEGRInfo read in this iteration
    iterated,    \* history: the loop body has been entered at least once
    fpc,         \* fillP010Buffer: position
    fWidth,      \* fillP010Buffer: width argument
    fHeight,     \* fillP010Buffer: height argument
    fStride,     \* fillP010Buffer: stride argument
    fJ,          \* fillP010Buffer: row counter j
    fI,          \* fillP010Buffer: column counter i
    fTmp,        \* fillP010Buffer: offset of tmp from data, in samples
    fBytes,      \* fillP010Buffer: byte offsets (from data) written so far
    dpc,         \* decode: position
    dKind,       \* decode: kind of input stream
    dBoost,      \* decode: requested display boost, in tenths
    dOf,         \* decode: requested output format
    dDemux,      \* decode: outcome of the demuxer
    dStatus,     \* decode: returned status
    dReport      \* decode: gain-map presence reported to the caller

vars == <<pc, remaining, muxSwitch, tf, width, height, p010Img, yuv420Img,
          grayImg, jpegImgR, jpegImg, jpegGainMap, metadata, status,
          encodeApi, passed, preLength, encodeOut, decodeIn, infoIn, iterated,
          fpc, fWidth, fHeight, fStride, fJ, fI, fTmp, fBytes,
          dpc, dKind, dBoost, dOf, dDemux, dStatus, dReport>>

procVars == <<pc, remaining, muxSwitch, tf, width, height, p010Img, yuv420Img,
              grayImg, jpegImgR, jpegImg, jpegGainMap, metadata, status,
              encodeApi, passed, preLength, encodeOut, decodeIn, infoIn,
              iterated>>

fillVars == <<fpc, fWidth, fHeight, fStride, fJ, fI, fTmp, fBytes>>

decVars == <<dpc, dKind, dBoost, dOf, dDemux, dStatus, dReport>>

---------------------------------------------------------------------------
(* Bounds of the model *)

\* largest fuzz input, in bytes
MaxBytes == 100
\* raw width / height draws are kMin .. kMin + MaxDimDelta, and kMax
MaxDimDelta == 1
\* stride draws are width .. width + MaxStridePad
MaxStridePad == 1
\* compressed sizes the external JPEG compressor is let to return
MaxJpegSize == 2

---------------------------------------------------------------------------
(* Program constants *)

kMinWidth == 8
kMaxWidth == 7680
kMinHeight == 8
kMaxHeight == 4320
kScaleFactor == 4
kJpegBlock == 16
kQfMin == 0
kQfMax == 100

\* ultrahdr.h enums (header not at hand; order as the design document lists)
ULTRAHDR_TF_UNSPECIFIED == -1
ULTRAHDR_TF_LINEAR == 0
ULTRAHDR_TF_HLG == 1
ULTRAHDR_TF_PQ == 2
ULTRAHDR_TF_SRGB == 3
ULTRAHDR_TF_MAX == ULTRAHDR_TF_SRGB
ULTRAHDR_COLORGAMUT_UNSPECIFIED == -1
ULTRAHDR_COLORGAMUT_MAX == 2
ULTRAHDR_OUTPUT_UNSPECIFIED == -1
ULTRAHDR_OUTPUT_MAX == 3

kCgMin == ULTRAHDR_COLORGAMUT_UNSPECIFIED + 1
kCgMax == ULTRAHDR_COLORGAMUT_MAX
kTfMin == ULTRAHDR_TF_UNSPECIFIED + 1
kTfMax == ULTRAHDR_TF_MAX
kOfMin == ULTRAHDR_OUTPUT_UNSPECIFIED + 1
kOfMax == ULTRAHDR_OUTPUT_MAX

\* peak nits of the transfer functions and the SDR white level
kHlgMaxNits == 1000
kPqMaxNits == 10000
kSdrWhiteNits == 100

\* status codes
OK == "OK"
UNKNOWN_ERROR == "UNKNOWN_ERROR"
ERROR_INVALID_ARGUMENT == "INVALID_ARGUMENT"
ERROR_BUFFER_TOO_SMALL == "BUFFER_TOO_SMALL"
ERROR_ENCODE == "INTERNAL_CODEC_FAILURE"
ERROR_PARSE == "STRUCTURAL_PARSE_FAILURE"
ERROR_UNSUPPORTED == "UNSUPPORTED_CONFIGURATION"

---------------------------------------------------------------------------
(* Helpers *)

Min(a, b) == IF a < b THEN a ELSE b

Max(a, b) == IF a > b THEN a ELSE b

\* 256^k for the byte counts the integral reads of this program take (the
\* widest range read, kMinWidth .. kMaxWidth, takes two bytes)
Pow256(k) ==
    CASE k = 0 -> 1
      [] k = 1 -> 256
      [] k = 2 -> 65536
      [] k = 3 -> 16777216

\* bytes ConsumeIntegralInRange needs for a range: one per started 8 bits
BytesFor(range) ==
    IF range = 0 THEN 0
    ELSE IF range < 256 THEN 1
    ELSE IF range < 65536 THEN 2
    ELSE IF range < 16777216 THEN 3
    ELSE 4

\* a read that leaves its bytes in the input
PeekedBytes(lo, hi, rem) == 0

\* bytes mFdp.ConsumeIntegralInRange<int>(lo, hi) takes off the input

ConsumedBytes(lo, hi, rem) == Min(BytesFor(hi - lo), rem)

\* values mFdp.ConsumeIntegralInRange<int>(lo, hi) can return with rem bytes
\* left: lo + (bytes read as a number) % (hi - lo + 1)
ConsumeValues(lo, hi, rem) ==
    lo .. Min(hi, lo + Pow256(ConsumedBytes(lo, hi, rem)) - 1)

\* values mFdp.ConsumeBool() can return: the low bit of one byte, false when
\* the input is exhausted
ConsumeBoolValues(rem) == IF rem = 0 THEN {FALSE} ELSE {FALSE, TRUE}

\* bytes the sixteen pattern reads of fillP010Buffer take (two each)
PatternBytes(rem) == Min(16 * BytesFor((2 ^ 10) - 1), rem)

\* bytes mFdp.ConsumeData(buffer.data(), 16) of fill420Buffer takes
DataBytes(rem) == Min(16, rem)

\* bytes mFdp.ConsumeFloatingPointInRange<float>(1.0, FLT_MAX) takes: one
\* 32-bit integral read
FloatBytes(rem) == Min(4, rem)

\* the rounding left out
EvenDownIdentity(x) == x

\* (x >> 1) << 1

EvenDown(x) == (x \div 2) * 2

\* a value-initialised jpegr_uncompressed_struct
ZeroImg ==
    [width |-> 0, height |-> 0, luma_stride |-> 0, chroma_null |-> TRUE,
     chroma_stride |-> 0, data_size |-> 0, chroma_size |-> 0]

\* a value-initialised jpegr_compressed_struct
ZeroJpeg == [length |-> 0, maxLength |-> 0]

\* metadata before api 4 builds it
NoMetadata == [set |-> FALSE, maxContentBoost |-> 0, minContentBoost |-> 0]

\* a status that starts out as success
StatusInitOk == OK

\* android::status_t status = android::UNKNOWN_ERROR

StatusInit == UNKNOWN_ERROR

\* the length set to the capacity instead of 0
ResetLengthToCapacity(buf) == [buf EXCEPT !.length = buf.maxLength]

\* jpegImgR.length = 0 ahead of every encode call

ResetLength(buf) == [buf EXCEPT !.length = 0]

---------------------------------------------------------------------------
(* Gain-map dimensions, lines 168-172 *)

\* the width scaled down and not rounded up to the JPEG block
MapWidthNoRound(w) == w \div kScaleFactor

\* lines 168 and 170: width / kScaleFactor rounded up to kJpegBlock

MapWidth(w) ==
    (((w \div kScaleFactor) + kJpegBlock - 1) \div kJpegBlock) * kJpegBlock

\* the height scaled down and rounded down to even
MapHeightRoundDown(h) == ((h \div kScaleFactor) \div 2) * 2

\* lines 169 and 172: height / kScaleFactor rounded up to even

MapHeight(h) == (((h \div kScaleFactor) + 1) \div 2) * 2

---------------------------------------------------------------------------
(* Draws of the fuzz input: small sets that keep both ends of each range *)

RawWidths == (kMinWidth .. (kMinWidth + MaxDimDelta)) \cup {kMaxWidth}

RawHeights == (kMinHeight .. (kMinHeight + MaxDimDelta)) \cup {kMaxHeight}

StrideDraws(w) == w .. (w + MaxStridePad)

\* sizes getCompressedImageSize() is let to report
JpegSizes == 1 .. MaxJpegSize

---------------------------------------------------------------------------
(* JPEG-R codec entry points, modelled from the design document *)

\* a pixel descriptor an encode shape accepts: non-null, even, in range
ValidImg(d) ==
    /\ d.data_size > 0
    /\ d.width % 2 = 0 /\ d.height % 2 = 0
    /\ d.width >= kMinWidth /\ d.width <= kMaxWidth
    /\ d.height >= kMinHeight /\ d.height <= kMaxHeight

\* the inputs of an encode shape are non-null and dimensionally consistent
ValidInputs(api, hdr, sdr, primary, gainmap) ==
    CASE api = 0 -> ValidImg(hdr)
      [] api = 1 -> ValidImg(hdr) /\ ValidImg(sdr)
                    /\ hdr.width = sdr.width /\ hdr.height = sdr.height
      [] api = 2 -> ValidImg(hdr) /\ ValidImg(sdr) /\ primary.length > 0
                    /\ hdr.width = sdr.width /\ hdr.height = sdr.height
      [] api = 3 -> ValidImg(hdr) /\ primary.length > 0
      [] OTHER -> primary.length > 0 /\ gainmap.length > 0

\* bytes of already compressed input the composite has to hold
CarriedBytes(api, primary, gainmap) ==
    CASE api = 2 -> primary.length
      [] api = 3 -> primary.length
      [] api = 4 -> primary.length + gainmap.length
      [] OTHER -> 0

\* lengths a successful encode may leave in dest: more than it carries, never
\* more than dest.maxLength
OkLengths(api, primary, gainmap, dest) ==
    LET least == CarriedBytes(api, primary, gainmap) + 1
    IN  {n \in {least, least + 1, dest.maxLength} : n <= dest.maxLength}

\* what a failing encode leaves in dest.length: nothing is written
FailedLength(dest) == dest.length

\* outcomes of JpegR::encodeJPEGR: [status, length of dest afterwards]
EncodeOutcomes(api, hdr, sdr, primary, gainmap, dest) ==
    IF ~ValidInputs(api, hdr, sdr, primary, gainmap)
    THEN {[status |-> ERROR_INVALID_ARGUMENT, length |-> FailedLength(dest)]}
    ELSE {[status |-> OK, length |-> n] :
              n \in OkLengths(api, primary, gainmap, dest)}
         \cup {[status |-> ERROR_BUFFER_TOO_SMALL,
                length |-> FailedLength(dest)]}
         \cup (IF api = 4
               THEN {[status |-> ERROR_INVALID_ARGUMENT,
                      length |-> FailedLength(dest)]}
               ELSE {[status |-> ERROR_ENCODE,
                      length |-> FailedLength(dest)]})

---------------------------------------------------------------------------
(* JpegHDRFuzzer::process *)

\* while (mFdp.remaining_bytes()): enter the body, its locals value-initialised
LoopEnter ==
    /\ pc = "loop"
    /\ remaining # 0
    /\ pc' = "params"
    /\ p010Img' = ZeroImg
    /\ yuv420Img' = ZeroImg
    /\ grayImg' = ZeroImg
    /\ jpegImgR' = ZeroJpeg
    /\ jpegImg' = ZeroJpeg
    /\ jpegGainMap' = ZeroJpeg
    /\ iterated' = TRUE
    /\ UNCHANGED <<remaining, muxSwitch, tf, width, height, metadata, status,
                   encodeApi, passed, preLength, encodeOut, decodeIn, infoIn>>

\* while (mFdp.remaining_bytes()): the input is used up, process() returns
LoopExit ==
    /\ pc = "loop"
    /\ remaining = 0
    /\ pc' = "done"
    /\ UNCHANGED <<remaining, muxSwitch, tf, width, height, p010Img,
                   yuv420Img, grayImg, jpegImgR, jpegImg, jpegGainMap,
                   metadata, status, encodeApi, passed, preLength, encodeOut,
                   decodeIn, infoIn, iterated>>

\* lines 106-131: api selector, quality, tf, gamuts, output format, width,
\* height.  Quality, the gamuts and the output format are read (their bytes
\* leave the input) and only passed on to the codec.
ReadParams ==
    /\ pc = "params"
    /\ LET r0 == remaining
           r1 == r0 - ConsumedBytes(0, 4, r0)
           r2 == r1 - ConsumedBytes(kQfMin, kQfMax, r1)
           r3 == r2 - ConsumedBytes(kTfMin, kTfMax, r2)
           r4 == r3 - ConsumedBytes(kCgMin, kCgMax, r3)
           r5 == r4 - ConsumedBytes(kCgMin, kCgMax, r4)
           r6 == r5 - ConsumedBytes(kOfMin, kOfMax, r5)
           r7 == r6 - ConsumedBytes(kMinWidth, kMaxWidth, r6)
           r8 == r7 - ConsumedBytes(kMinHeight, kMaxHeight, r7)
       IN  /\ \E m \in ConsumeValues(0, 4, r0) : muxSwitch' = m
           /\ \E t \in ConsumeValues(kTfMin, kTfMax, r2) : tf' = t
           /\ \E w \in RawWidths \cap ConsumeValues(kMinWidth, kMaxWidth, r6) :
                  width' = EvenDown(w)
           /\ \E h \in RawHeights \cap ConsumeValues(kMinHeight, kMaxHeight, r7) :
                  height' = EvenDown(h)
           /\ remaining' = r8
    /\ pc' = "images"
    /\ UNCHANGED <<p010Img, yuv420Img, grayImg, jpegImgR, jpegImg,
                   jpegGainMap, metadata, status, encodeApi, passed,
                   preLength, encodeOut, decodeIn, infoIn, iterated>>

\* lines 137-166: the P010 image, its chroma inside the luma allocation
\* (isUVContiguous) or in an allocation of its own
InitP010 ==
    /\ pc = "images"
    /\ muxSwitch # 4
    /\ LET r0 == remaining
           r1 == r0 - Min(1, r0)
           r2 == r1 - Min(1, r1)
       IN  \E isUVContiguous \in ConsumeBoolValues(r0),
              hasYStride \in ConsumeBoolValues(r1) :
             LET r3 == IF hasYStride
                       THEN r2 - ConsumedBytes(width, width + 128, r2)
                       ELSE r2
                 yStrides == IF hasYStride
                             THEN StrideDraws(width)
                                  \cap ConsumeValues(width, width + 128, r2)
                             ELSE {width}
             IN  \E yStride \in yStrides :
                   IF isUVContiguous
                   THEN LET r4 == r3 - PatternBytes(r3)
                            r5 == r4 - PatternBytes(r4)
                        IN  /\ p010Img' =
                                 [width |-> width, height |-> height,
                                  luma_stride |->
                                      IF hasYStride THEN yStride ELSE 0,
                                  chroma_null |-> TRUE,
                                  chroma_stride |-> 0,
                                  data_size |-> (yStride * height * 3) \div 2,
                                  chroma_size |-> 0]
                            /\ remaining' = r5
                   ELSE LET r4 == r3 - ConsumedBytes(width, width + 128, r3)
                            r5 == r4 - PatternBytes(r4)
                            r6 == r5 - PatternBytes(r5)
                        IN  \E uvStride \in StrideDraws(width) \cap
                                  ConsumeValues(width, width + 128, r3) :
                              /\ p010Img' =
                                   [width |-> width, height |-> height,
                                    luma_stride |->
                                        IF hasYStride THEN yStride ELSE 0,
                                    chroma_null |-> FALSE,
                                    chroma_stride |-> uvStride,
                                    data_size |-> yStride * height,
                                    chroma_size |-> (uvStride * height) \div 2]
                              /\ remaining' = r6
    /\ pc' = "sdr"
    /\ UNCHANGED <<muxSwitch, tf, width, height, yuv420Img, grayImg, jpegImgR,
                   jpegImg, jpegGainMap, metadata, status, encodeApi, passed,
                   preLength, encodeOut, decodeIn, infoIn, iterated>>

\* lines 167-185: the single-channel image that stands in for a gain map
InitGray ==
    /\ pc = "images"
    /\ muxSwitch = 4
    /\ LET map_width == MapWidth(width)
           map_height == MapHeight(height)
           graySize == map_width * map_height
       IN  /\ grayImg' = [width |-> map_width, height |-> map_height,
                          luma_stride |-> 0, chroma_null |-> TRUE,
                          chroma_stride |-> 0, data_size |-> graySize,
                          chroma_size |-> 0]
           /\ remaining' = remaining - DataBytes(remaining)
    /\ pc' = "sdr"
    /\ UNCHANGED <<muxSwitch, tf, width, height, p010Img, yuv420Img, jpegImgR,
                   jpegImg, jpegGainMap, metadata, status, encodeApi, passed,
                   preLength, encodeOut, decodeIn, infoIn, iterated>>

\* lines 187-200: the 4:2:0 image, one allocation, chroma after the luma
Init420 ==
    /\ pc = "sdr"
    /\ muxSwitch > 0
    /\ yuv420Img' = [width |-> width, height |-> height, luma_stride |-> 0,
                     chroma_null |-> TRUE, chroma_stride |-> 0,
                     data_size |-> (width * height * 3) \div 2,
                     chroma_size |-> 0]
    /\ remaining' = remaining - DataBytes(remaining)
    /\ pc' = "dest"
    /\ UNCHANGED <<muxSwitch, tf, width, height, p010Img, grayImg, jpegImgR,
                   jpegImg, jpegGainMap, metadata, status, encodeApi, passed,
                   preLength, encodeOut, decodeIn, infoIn, iterated>>

\* line 187 not taken: api 0 has no 4:2:0 image
Skip420 ==
    /\ pc = "sdr"
    /\ ~(muxSwitch > 0)
    /\ pc' = "dest"
    /\ UNCHANGED <<remaining, muxSwitch, tf, width, height, p010Img,
                   yuv420Img, grayImg, jpegImgR, jpegImg, jpegGainMap,
                   metadata, status, encodeApi, passed, preLength, encodeOut,
                   decodeIn, infoIn, iterated>>

\* lines 204-220: the destination buffer, a fresh JpegR, status, and the
\* history of the iteration cleared
InitDest ==
    /\ pc = "dest"
    /\ jpegImgR' = [jpegImgR EXCEPT
                       !.maxLength = Max(8 * 1024, width * height * 3 * 2)]
    /\ status' = StatusInit
    /\ metadata' = NoMetadata
    /\ encodeApi' = -1
    /\ passed' = {}
    /\ preLength' = 0
    /\ encodeOut' = ZeroJpeg
    /\ decodeIn' = ZeroJpeg
    /\ infoIn' = ZeroJpeg
    /\ pc' = "dispatch"
    /\ UNCHANGED <<remaining, muxSwitch, tf, width, height, p010Img,
                   yuv420Img, grayImg, jpegImg, jpegGainMap, iterated>>

\* the call jpegHdr.encodeJPEGR(..., &jpegImgR, ...) of shape api, made with
\* jpegImgR.length reset first; records what the call was given and left
CallEncode(api, descs) ==
    LET dest == ResetLength(jpegImgR)
    IN  \E o \in EncodeOutcomes(api, p010Img, yuv420Img, jpegImg,
                                jpegGainMap', dest) :
          /\ jpegImgR' = [dest EXCEPT !.length = o.length]
          /\ status' = o.status
          /\ encodeApi' = api
          /\ passed' = descs
          /\ preLength' = dest.length
          /\ encodeOut' = jpegImgR'
          /\ pc' = "check"

\* lines 221-223
EncodeApi0 ==
    /\ pc = "dispatch"
    /\ muxSwitch = 0
    /\ UNCHANGED jpegGainMap
    /\ CallEncode(0, {p010Img})
    /\ UNCHANGED <<remaining, muxSwitch, tf, width, height, p010Img,
                   yuv420Img, grayImg, jpegImg, metadata, decodeIn, infoIn,
                   iterated>>

\* lines 224-226
EncodeApi1 ==
    /\ pc = "dispatch"
    /\ muxSwitch = 1
    /\ UNCHANGED jpegGainMap
    /\ CallEncode(1, {p010Img, yuv420Img})
    /\ UNCHANGED <<remaining, muxSwitch, tf, width, height, p010Img,
                   yuv420Img, grayImg, jpegImg, metadata, decodeIn, infoIn,
                   iterated>>

\* lines 229-235: the external compressor takes the 4:2:0 image
CompressPrimaryOk ==
    /\ pc = "dispatch"
    /\ muxSwitch \notin {0, 1}
    /\ \E n \in JpegSizes : jpegImg' = [length |-> n, maxLength |-> n]
    /\ pc' = "compressed"
    /\ UNCHANGED <<remaining, muxSwitch, tf, width, height, p010Img,
                   yuv420Img, grayImg, jpegImgR, jpegGainMap, metadata,
                   status, encodeApi, passed, preLength, encodeOut, decodeIn,
                   infoIn, iterated>>

\* line 230: compressImage returns false, no encode call is made
CompressPrimaryFail ==
    /\ pc = "dispatch"
    /\ muxSwitch \notin {0, 1}
    /\ pc' = "check"
    /\ UNCHANGED <<remaining, muxSwitch, tf, width, height, p010Img,
                   yuv420Img, grayImg, jpegImgR, jpegImg, jpegGainMap,
                   metadata, status, encodeApi, passed, preLength, encodeOut,
                   decodeIn, infoIn, iterated>>

\* lines 237-239
EncodeApi2 ==
    /\ pc = "compressed"
    /\ muxSwitch = 2
    /\ UNCHANGED jpegGainMap
    /\ CallEncode(2, {p010Img, yuv420Img})
    /\ UNCHANGED <<remaining, muxSwitch, tf, width, height, p010Img,
                   yuv420Img, grayImg, jpegImg, metadata, decodeIn, infoIn,
                   iterated>>

\* lines 240-242
EncodeApi3 ==
    /\ pc = "compressed"
    /\ muxSwitch = 3
    /\ UNCHANGED jpegGainMap
    /\ CallEncode(3, {p010Img})
    /\ UNCHANGED <<remaining, muxSwitch, tf, width, height, p010Img,
                   yuv420Img, grayImg, jpegImg, metadata, decodeIn, infoIn,
                   iterated>>

\* lines 254-260: maxContentBoost for the transfer function read
MaxContentBoost(t) ==
    IF t = ULTRAHDR_TF_HLG THEN kHlgMaxNits \div kSdrWhiteNits
    ELSE IF t = ULTRAHDR_TF_PQ THEN kPqMaxNits \div kSdrWhiteNits
    ELSE 0

\* lines 248-251: the descriptor of the compressed gain map, n its size
GainMapDescriptor(n) == [length |-> n, maxLength |-> jpegImg.length]

\* lines 243-262: api 4, the gain map compressed, the metadata built, the
\* pure-mux encode shape called
EncodeApi4 ==
    /\ pc = "compressed"
    /\ muxSwitch = 4
    /\ \E n \in JpegSizes : jpegGainMap' = GainMapDescriptor(n)
    /\ metadata' = [set |-> TRUE, maxContentBoost |-> MaxContentBoost(tf),
                    minContentBoost |-> 1]
    /\ CallEncode(4, {})
    /\ UNCHANGED <<remaining, muxSwitch, tf, width, height, p010Img,
                   yuv420Img, grayImg, jpegImg, decodeIn, infoIn, iterated>>

\* lines 243-246: api 4, the gain-map compressImage returns false
CompressGainMapFail ==
    /\ pc = "compressed"
    /\ muxSwitch = 4
    /\ jpegImgR' = ResetLength(jpegImgR)
    /\ pc' = "check"
    /\ UNCHANGED <<remaining, muxSwitch, tf, width, height, p010Img,
                   yuv420Img, grayImg, jpegImg, jpegGainMap, metadata,
                   status, encodeApi, passed, preLength, encodeOut, decodeIn,
                   infoIn, iterated>>

\* lines 267-278: status OK, the destination is decoded and inspected
DecodeAndInfo ==
    /\ pc = "check"
    /\ status = OK
    /\ decodeIn' = jpegImgR
    /\ infoIn' = jpegImgR
    /\ remaining' = remaining - FloatBytes(remaining)
    /\ pc' = "end"
    /\ UNCHANGED <<muxSwitch, tf, width, height, p010Img, yuv420Img, grayImg,
                   jpegImgR, jpegImg, jpegGainMap, metadata, status,
                   encodeApi, passed, preLength, encodeOut, iterated>>

\* line 267 not taken
SkipDecode ==
    /\ pc = "check"
    /\ status # OK
    /\ pc' = "end"
    /\ UNCHANGED <<remaining, muxSwitch, tf, width, height, p010Img,
                   yuv420Img, grayImg, jpegImgR, jpegImg, jpegGainMap,
                   metadata, status, encodeApi, passed, preLength, encodeOut,
                   decodeIn, infoIn, iterated>>

\* line 279: the body's locals go out of scope
EndIteration ==
    /\ pc = "end"
    /\ pc' = "loop"
    /\ muxSwitch' = 0
    /\ tf' = 0
    /\ width' = 0
    /\ height' = 0
    /\ p010Img' = ZeroImg
    /\ yuv420Img' = ZeroImg
    /\ grayImg' = ZeroImg
    /\ jpegImgR' = ZeroJpeg
    /\ jpegImg' = ZeroJpeg
    /\ jpegGainMap' = ZeroJpeg
    /\ metadata' = NoMetadata
    /\ status' = UNKNOWN_ERROR
    /\ encodeApi' = -1
    /\ passed' = {}
    /\ preLength' = 0
    /\ encodeOut' = ZeroJpeg
    /\ decodeIn' = ZeroJpeg
    /\ infoIn' = ZeroJpeg
    /\ UNCHANGED <<remaining, iterated>>

\* the other machines of this module at rest
FillIdle ==
    /\ fpc = "idle" /\ fWidth = 0 /\ fHeight = 0 /\ fStride = 0
    /\ fJ = 0 /\ fI = 0 /\ fTmp = 0 /\ fBytes = {}

DecIdle ==
    /\ dpc = "idle" /\ dKind = "none" /\ dBoost = 0 /\ dOf = "none"
    /\ dDemux = "none" /\ dStatus = "none" /\ dReport = "none"

ProcIdle ==
    /\ pc = "idle" /\ remaining = 0
    /\ muxSwitch = 0 /\ tf = 0 /\ width = 0 /\ height = 0
    /\ p010Img = ZeroImg /\ yuv420Img = ZeroImg /\ grayImg = ZeroImg
    /\ jpegImgR = ZeroJpeg /\ jpegImg = ZeroJpeg /\ jpegGainMap = ZeroJpeg
    /\ metadata = NoMetadata /\ status = UNKNOWN_ERROR
    /\ encodeApi = -1 /\ passed = {} /\ preLength = 0
    /\ encodeOut = ZeroJpeg /\ decodeIn = ZeroJpeg /\ infoIn = ZeroJpeg
    /\ iterated = FALSE

\* JpegHDRFuzzer(data, size): mFdp holds size bytes; process() is entered
Init ==
    /\ pc = "loop"
    /\ remaining \in 0 .. MaxBytes
    /\ muxSwitch = 0 /\ tf = 0 /\ width = 0 /\ height = 0
    /\ p010Img = ZeroImg /\ yuv420Img = ZeroImg /\ grayImg = ZeroImg
    /\ jpegImgR = ZeroJpeg /\ jpegImg = ZeroJpeg /\ jpegGainMap = ZeroJpeg
    /\ metadata = NoMetadata /\ status = UNKNOWN_ERROR
    /\ encodeApi = -1 /\ passed = {} /\ preLength = 0
    /\ encodeOut = ZeroJpeg /\ decodeIn = ZeroJpeg /\ infoIn = ZeroJpeg
    /\ iterated = FALSE
    /\ FillIdle
    /\ DecIdle

Next ==
    \/ (LoopEnter /\ UNCHANGED <<fillVars, decVars>>)
    \/ (LoopExit /\ UNCHANGED <<fillVars, decVars>>)
    \/ (ReadParams /\ UNCHANGED <<fillVars, decVars>>)
    \/ (InitP010 /\ UNCHANGED <<fillVars, decVars>>)
    \/ (InitGray /\ UNCHANGED <<fillVars, decVars>>)
    \/ (Init420 /\ UNCHANGED <<fillVars, decVars>>)
    \/ (Skip420 /\ UNCHANGED <<fillVars, decVars>>)
    \/ (InitDest /\ UNCHANGED <<fillVars, decVars>>)
    \/ (EncodeApi0 /\ UNCHANGED <<fillVars, decVars>>)
    \/ (EncodeApi1 /\ UNCHANGED <<fillVars, decVars>>)
    \/ (CompressPrimaryOk /\ UNCHANGED <<fillVars, decVars>>)
    \/ (CompressPrimaryFail /\ UNCHANGED <<fillVars, decVars>>)
    \/ (EncodeApi2 /\ UNCHANGED <<fillVars, decVars>>)
    \/ (EncodeApi3 /\ UNCHANGED <<fillVars, decVars>>)
    \/ (EncodeApi4 /\ UNCHANGED <<fillVars, decVars>>)
    \/ (CompressGainMapFail /\ UNCHANGED <<fillVars, decVars>>)
    \/ (DecodeAndInfo /\ UNCHANGED <<fillVars, decVars>>)
    \/ (SkipDecode /\ UNCHANGED <<fillVars, decVars>>)
    \/ (EndIteration /\ UNCHANGED <<fillVars, decVars>>)

Spec == Init /\ [][Next]_vars

\* process() is straight-line code on one thread: a step that can be taken
\* is taken
FairSpec == Spec /\ WF_vars(Next)

---------------------------------------------------------------------------
(* Gain-map dimensions over the whole range of sizes: lines 127-131 and    *)
(* 168-175 with input at hand for both reads.  Width and height are        *)
(* rounded independently, so each axis runs over its whole range against   *)
(* the draws of the other.                                                 *)

DimPairs ==
    ((kMinWidth .. kMaxWidth) \X RawHeights)
        \cup (RawWidths \X (kMinHeight .. kMaxHeight))

DimsRead ==
    /\ pc = "dims_read"
    /\ \E d \in DimPairs :
          /\ width' = EvenDown(d[1])
          /\ height' = EvenDown(d[2])
    /\ pc' = "dims_map"
    /\ UNCHANGED <<remaining, muxSwitch, tf, p010Img, yuv420Img, grayImg,
                   jpegImgR, jpegImg, jpegGainMap, metadata, status,
                   encodeApi, passed, preLength, encodeOut, decodeIn, infoIn,
                   iterated>>

DimsMap ==
    /\ pc = "dims_map"
    /\ grayImg' = [width |-> MapWidth(width), height |-> MapHeight(height),
                   luma_stride |-> 0, chroma_null |-> TRUE,
                   chroma_stride |-> 0,
                   data_size |-> MapWidth(width) * MapHeight(height),
                   chroma_size |-> 0]
    /\ pc' = "dims_done"
    /\ UNCHANGED <<remaining, muxSwitch, tf, width, height, p010Img,
                   yuv420Img, jpegImgR, jpegImg, jpegGainMap, metadata,
                   status, encodeApi, passed, preLength, encodeOut, decodeIn,
                   infoIn, iterated>>

InitDims ==
    /\ pc = "dims_read"
    /\ remaining = 0
    /\ muxSwitch = 4 /\ tf = 0 /\ width = 0 /\ height = 0
    /\ p010Img = ZeroImg /\ yuv420Img = ZeroImg /\ grayImg = ZeroImg
    /\ jpegImgR = ZeroJpeg /\ jpegImg = ZeroJpeg /\ jpegGainMap = ZeroJpeg
    /\ metadata = NoMetadata /\ status = UNKNOWN_ERROR
    /\ encodeApi = -1 /\ passed = {} /\ preLength = 0
    /\ encodeOut = ZeroJpeg /\ decodeIn = ZeroJpeg /\ infoIn = ZeroJpeg
    /\ iterated = FALSE
    /\ FillIdle
    /\ DecIdle

NextDims ==
    \/ (DimsRead /\ UNCHANGED <<fillVars, decVars>>)
    \/ (DimsMap /\ UNCHANGED <<fillVars, decVars>>)

SpecDims == InitDims /\ [][NextDims]_vars

---------------------------------------------------------------------------
(* JpegHDRFuzzer::fillP010Buffer(data, width, height, stride), lines 72-85 *)
(* data is a uint16_t*: sample s lies at bytes 2s and 2s + 1 from data.    *)
(* The plane handed in holds stride * height samples.  The pattern's       *)
(* values (each in 0 .. 1023, shuffled after every copy) are not tracked:  *)
(* fBytes records which bytes a memcpy has written.                        *)

\* fill widths and heights: the even widths, and the heights height and
\* height / 2 the callers pass
MaxFillWidth == 34
MaxFillHeight == 5

FillWidths == {w \in kMinWidth .. MaxFillWidth : w % 2 = 0}

FillHeights == (kMinHeight \div 2) .. MaxFillHeight

\* line 80: where the memcpy writes, in samples from data
CopyDest(tmp, i) == i

\* line 80: how many bytes the memcpy writes
CopyBytes(w, i) == Min(16, w - i)

\* lines 74-77: the sixteen pattern samples are read off the input
FillPattern ==
    /\ fpc = "entry"
    /\ remaining' = remaining - PatternBytes(remaining)
    /\ fJ' = 0
    /\ fTmp' = 0
    /\ fpc' = "row"
    /\ UNCHANGED <<fWidth, fHeight, fStride, fI, fBytes>>

\* line 78: j < height
FillRowEnter ==
    /\ fpc = "row"
    /\ fJ < fHeight
    /\ fI' = 0
    /\ fpc' = "col"
    /\ UNCHANGED <<remaining, fWidth, fHeight, fStride, fJ, fTmp, fBytes>>

\* lines 79-82: one memcpy and shuffle, i += buffer.size()
FillCopy ==
    /\ fpc = "col"
    /\ fI < fWidth
    /\ LET first == 2 * CopyDest(fTmp, fI)
           n == CopyBytes(fWidth, fI)
       IN  fBytes' = fBytes \cup (first .. (first + n - 1))
    /\ fI' = fI + 16
    /\ UNCHANGED <<remaining, fpc, fWidth, fHeight, fStride, fJ, fTmp>>

\* line 83: tmp += stride, then j++
FillRowEnd ==
    /\ fpc = "col"
    /\ ~(fI < fWidth)
    /\ fTmp' = fTmp + fStride
    /\ fJ' = fJ + 1
    /\ fpc' = "row"
    /\ UNCHANGED <<remaining, fWidth, fHeight, fStride, fI, fBytes>>

\* line 78: the loop is left, fillP010Buffer returns
FillReturn ==
    /\ fpc = "row"
    /\ ~(fJ < fHeight)
    /\ fpc' = "done"
    /\ UNCHANGED <<remaining, fWidth, fHeight, fStride, fJ, fI, fTmp, fBytes>>

\* a call of fillP010Buffer on a freshly allocated (zeroed) plane
InitFill ==
    /\ pc = "fill"
    /\ remaining \in {0, MaxBytes}
    /\ muxSwitch = 0 /\ tf = 0 /\ width = 0 /\ height = 0
    /\ p010Img = ZeroImg /\ yuv420Img = ZeroImg /\ grayImg = ZeroImg
    /\ jpegImgR = ZeroJpeg /\ jpegImg = ZeroJpeg /\ jpegGainMap = ZeroJpeg
    /\ metadata = NoMetadata /\ status = UNKNOWN_ERROR
    /\ encodeApi = -1 /\ passed = {} /\ preLength = 0
    /\ encodeOut = ZeroJpeg /\ decodeIn = ZeroJpeg /\ infoIn = ZeroJpeg
    /\ iterated = FALSE
    /\ fpc = "entry"
    /\ fWidth \in FillWidths
    /\ fHeight \in FillHeights
    /\ fStride \in StrideDraws(fWidth)
    /\ fJ = 0 /\ fI = 0 /\ fTmp = 0 /\ fBytes = {}
    /\ DecIdle

fillRest == <<pc, muxSwitch, tf, width, height, p010Img, yuv420Img, grayImg,
              jpegImgR, jpegImg, jpegGainMap, metadata, status, encodeApi,
              passed, preLength, encodeOut, decodeIn, infoIn, iterated>>

NextFill ==
    \/ (FillPattern /\ UNCHANGED <<fillRest, decVars>>)
    \/ (FillRowEnter /\ UNCHANGED <<fillRest, decVars>>)
    \/ (FillCopy /\ UNCHANGED <<fillRest, decVars>>)
    \/ (FillRowEnd /\ UNCHANGED <<fillRest, decVars>>)
    \/ (FillReturn /\ UNCHANGED <<fillRest, decVars>>)

SpecFill == InitFill /\ [][NextFill]_vars

---------------------------------------------------------------------------
(* JpegR::decodeJPEGR on its own, modelled from the design document:       *)
(* demuxer, then the two decompress calls and the gain-map applier.        *)
(* Boost values are in tenths: 10 is a display boost of 1.0.               *)

\* boost draws run from just below 1.0 to 1.0 + MaxBoostDelta tenths
MaxBoostDelta == 3

BoostDraws == 9 .. (10 + MaxBoostDelta)

StreamKinds == {"jpegr", "plain", "corrupt"}

OutputFormats == {"UNSPECIFIED", "SDR", "HDR_LINEAR", "HDR_GAMMA"}

HdrFormats == {"HDR_LINEAR", "HDR_GAMMA"}

\* a demuxer that takes a stream without gain map for a corrupt one
DemuxPlainAsCorrupt(kind) ==
    IF kind = "jpegr" THEN "gain_map_found" ELSE "parse_failure"

\* the demuxer: marker scan of the stream; a plain JPEG is an outcome of
\* its own, not a parse failure

Demux(kind) ==
    CASE kind = "jpegr" -> "gain_map_found"
      [] kind = "plain" -> "no_gain_map"
      [] OTHER -> "parse_failure"

\* statuses a decode that fails for want of a gain map may return
MissingGainMapFailures ==
    {ERROR_INVALID_ARGUMENT, ERROR_UNSUPPORTED, ERROR_ENCODE}

\* decode of a stream without gain map: the primary image is returned
\* unmodified when the boost is 1.0, and so it is when SDR output is asked
\* for (nothing is to be reconstructed); the call fails when HDR
\* reconstruction was asked for, that is an HDR format at a boost above 1.0
PlainOutcomes(boost, of) ==
    IF boost = 10 THEN {OK}
    ELSE IF of \in HdrFormats THEN MissingGainMapFailures
    ELSE {OK}

\* decode of a JPEG-R stream: both decompress calls and the applier succeed,
\* or the external decompressor reports a failure
JpegrOutcomes(boost, of) == {OK, ERROR_ENCODE}

\* the boost and the output format are validated before any pixel is touched
DecValidate ==
    /\ dpc = "entry"
    /\ IF dBoost < 10
       THEN /\ dStatus' = ERROR_INVALID_ARGUMENT
            /\ dpc' = "done"
       ELSE IF dOf = "UNSPECIFIED"
       THEN /\ dStatus' = ERROR_UNSUPPORTED
            /\ dpc' = "done"
       ELSE /\ dStatus' = dStatus
            /\ dpc' = "demux"
    /\ UNCHANGED <<dKind, dBoost, dOf, dDemux, dReport>>

\* the demuxer walks the marker segments
DecDemux ==
    /\ dpc = "demux"
    /\ dDemux' = Demux(dKind)
    /\ dpc' = "demuxed"
    /\ UNCHANGED <<dKind, dBoost, dOf, dStatus, dReport>>

\* a malformed stream is a structural parse failure
DecParseFailure ==
    /\ dpc = "demuxed"
    /\ dDemux = "parse_failure"
    /\ dStatus' = ERROR_PARSE
    /\ dpc' = "done"
    /\ UNCHANGED <<dKind, dBoost, dOf, dDemux, dReport>>

\* no gain map: reported to the caller as such
DecPlain ==
    /\ dpc = "demuxed"
    /\ dDemux = "no_gain_map"
    /\ \E st \in PlainOutcomes(dBoost, dOf) : dStatus' = st
    /\ dReport' = "no_gain_map"
    /\ dpc' = "done"
    /\ UNCHANGED <<dKind, dBoost, dOf, dDemux>>

\* primary image and gain map found: decompress both, apply the gain map
DecApply ==
    /\ dpc = "demuxed"
    /\ dDemux = "gain_map_found"
    /\ \E st \in JpegrOutcomes(dBoost, dOf) : dStatus' = st
    /\ dReport' = "gain_map_present"
    /\ dpc' = "done"
    /\ UNCHANGED <<dKind, dBoost, dOf, dDemux>>

InitDecode ==
    /\ ProcIdle
    /\ FillIdle
    /\ dpc = "entry"
    /\ dKind \in StreamKinds
    /\ dBoost \in BoostDraws
    /\ dOf \in OutputFormats
    /\ dDemux = "none" /\ dStatus = "none" /\ dReport = "none"

NextDecode ==
    \/ (DecValidate /\ UNCHANGED <<procVars, fillVars>>)
    \/ (DecDemux /\ UNCHANGED <<procVars, fillVars>>)
    \/ (DecParseFailure /\ UNCHANGED <<procVars, fillVars>>)
    \/ (DecPlain /\ UNCHANGED <<procVars, fillVars>>)
    \/ (DecApply /\ UNCHANGED <<procVars, fillVars>>)

SpecDecode == InitDecode /\ [][NextDecode]_vars

---------------------------------------------------------------------------
(* Properties *)

CompressedLengthWithinCapacity ==
    \A b \in {jpegImgR, jpegImg, jpegGainMap} : b.length <= b.maxLength

\* C3: the metadata record handed to the pre-compressed encode shape has
\* maxContentBoost >= minContentBoost, whatever transfer function was read.
MetadataBoostOrdered ==
    metadata.set => metadata.maxContentBoost >= metadata.minContentBoost

\* C4: for every valid input size the gain-map width is a positive multiple
\* of the JPEG block alignment (16) and the gain-map height is positive and
\* even.
GainMapDimsAligned ==
    pc = "dims_done" =>
        /\ grayImg.width > 0
        /\ grayImg.width % kJpegBlock = 0
        /\ grayImg.height > 0
        /\ grayImg.height % 2 = 0

\* C4 witness: the largest valid size, 7680 x 4320, gives a 1920 x 1080 map
GainMapDimsOfLargest ==
    /\ pc = "dims_done"
    /\ width = kMaxWidth /\ height = kMaxHeight
    /\ grayImg.width = 1920 /\ grayImg.height = 1080

PassedDescriptorsWellFormed ==
    \A d \in passed :
        LET eff == IF d.luma_stride = 0 THEN d.width ELSE d.luma_stride
        IN  /\ d.width % 2 = 0
            /\ d.width >= kMinWidth /\ d.width <= kMaxWidth
            /\ d.height % 2 = 0
            /\ d.height >= kMinHeight /\ d.height <= kMaxHeight
            /\ (d.luma_stride = 0 \/ d.luma_stride >= d.width)
            /\ IF d.chroma_null
               THEN /\ d.chroma_stride = 0
                    /\ d.chroma_size = 0
                    /\ eff * d.height + (eff * d.height) \div 2 <= d.data_size
               ELSE /\ d.chroma_stride >= d.width
                    /\ eff * d.height <= d.data_size
                    /\ (d.chroma_stride * d.height) \div 2 <= d.chroma_size

\* C6 witness: the two-buffer shape was handed a strided P010 image with a
\* chroma plane of its own next to a tightly packed 4:2:0 image
PassedDescriptorsSeen ==
    /\ pc = "check"
    /\ encodeApi = 1
    /\ passed = {p010Img, yuv420Img}
    /\ p010Img.luma_stride > p010Img.width
    /\ ~p010Img.chroma_null
    /\ p010Img.width = kMaxWidth
    /\ yuv420Img.chroma_null /\ yuv420Img.luma_stride = 0

\* C7 as stated: the gain map has one sample for every scale-factor block of
\* the image, partial blocks included: map_width * 4 >= width and
\* map_height * 4 >= height.
GainMapCoversImage ==
    pc = "dims_done" =>
        /\ grayImg.width * kScaleFactor >= width
        /\ grayImg.height * kScaleFactor >= height

\* C7 as amended: the gain map has one sample for every complete
\* scale-factor block: map_width >= width div 4 and map_height >= height
\* div 4, so map_width * 4 >= width - 2 and map_height * 4 >= height - 2.
GainMapCoversWholeBlocks ==
    pc = "dims_done" =>
        /\ grayImg.width >= width \div kScaleFactor
        /\ grayImg.height >= height \div kScaleFactor
        /\ grayImg.width * kScaleFactor >= width - 2
        /\ grayImg.height * kScaleFactor >= height - 2

\* C7 witness: width 66 has sixteen complete blocks and two columns over;
\* the map is 16 wide
GainMapPartialBlockSeen ==
    /\ pc = "dims_done"
    /\ width = 66
    /\ grayImg.width = 16
    /\ grayImg.width * kScaleFactor = width - 2

\* C8: decodeJPEGR and getJPEGRInfo are invoked only after an encode call of
\* the same iteration returned OK, and read the destination that call wrote;
\* with no encode call, or a failed one, neither is invoked, and the status
\* an iteration starts its dispatch with is never OK.
DecodeOnlyAfterOkEncode ==
    /\ (decodeIn # ZeroJpeg \/ infoIn # ZeroJpeg) =>
            /\ encodeApi # -1
            /\ status = OK
            /\ decodeIn = encodeOut
            /\ infoIn = encodeOut
            /\ encodeOut.length > 0
    /\ (pc \in {"dispatch", "compressed"}) => status # OK
    /\ (pc = "end" /\ (encodeApi = -1 \/ status # OK)) =>
            (decodeIn = ZeroJpeg /\ infoIn = ZeroJpeg)

\* C8 witness: an iteration whose api-3 encode returned OK has decoded the
\* destination it wrote
DecodeAfterOkEncodeSeen ==
    /\ pc = "end"
    /\ encodeApi = 3
    /\ status = OK
    /\ decodeIn = jpegImgR /\ infoIn = jpegImgR
    /\ jpegImgR.length > 0

\* C9: fillP010Buffer writes every sample data[j * stride + i], j in
\* [0, height), i in [0, width), and nothing outside the plane.
FillCoversPlane ==
    fpc = "done" =>
        /\ \A j \in 0 .. (fHeight - 1) : \A i \in 0 .. (fWidth - 1) :
              LET smp == j * fStride + i
              IN  {2 * smp, 2 * smp + 1} \subseteq fBytes
        /\ fBytes \subseteq 0 .. (2 * fStride * fHeight - 1)

\* C10: every iteration of the loop takes at least one byte off the input
\* (the remaining byte count strictly decreases across the parameter reads),
\* and process() reaches its end for every finite input.
ProcessTerminates ==
    /\ [][(pc = "params" /\ pc' # "params") => remaining' < remaining]_vars
    /\ <>(pc = "done")

\* C10 witness: process() has returned after running the loop body
ProcessReturnedAfterIterating ==
    /\ pc = "done"
    /\ iterated
    /\ remaining = 0

====
